---- MODULE Spec2Model ----
(***************************************************************************)
(* Model of stock.warehouse (src/warehouse_inventory.py): the creation     *)
(* workflow Warehouse.create, the default name, the two SQL uniqueness     *)
(* constraints, the company check on relational fields and the onchange    *)
(* hook of the company field.                                              *)
(*                                                                         *)
(* Record ids are positive integers; Falsy (0) is the value a missing key  *)
(* or an empty many2one yields, the one `vals.get(...)` tests for.         *)
(* A name is a pair <<text, n>>: <<t, 0>> is the text t alone and          *)
(* <<t, n>> is "t - warehouse # n"; <<>> is a name missing from vals.      *)
(***************************************************************************)
EXTENDS Integers, Sequences, FiniteSets, TLC

VARIABLES warehouses, locations, picking_types, routes, rules,
          partner_data, implied_ids, company, tx, onchange

vars == <<warehouses, locations, picking_types, routes, rules,
          partner_data, implied_ids, company, tx, onchange>>

db_vars == <<warehouses, locations, picking_types, routes, rules,
             partner_data, implied_ids>>

\* ---------------------------------------------------------------- bounds
MaxCalls == 2

\* ------------------------------------------------------------- constants
Falsy == 0

Companies == {1, 2}

CompanyName == [c \in Companies |-> IF c = 1 THEN "A" ELSE "B"]

\* res.company.partner_id: every company has its own partner record
CompanyPartner == [c \in Companies |-> c]

Address == 3

Partners == {CompanyPartner[c] : c \in Companies} \cup {Address}

Codes == {"WH", "W2"}

stock_location_locations == 1

group_stock_multi_warehouses == "stock.group_stock_multi_warehouses"

group_stock_multi_locations == "stock.group_stock_multi_locations"

Groups == {group_stock_multi_warehouses, group_stock_multi_locations}

delivery_steps == {"ship_only", "pick_ship", "pick_pack_ship"}

NoName == <<>>

MaxOf(S) == IF S = {} THEN 0 ELSE CHOOSE m \in S : \A x \in S : x <= m

\* a fresh record id of a table
NewId(table) == MaxOf(DOMAIN table) + 1

\* the many2one fields of a warehouse that point to a sub-location,
\* in declaration order
SubLocFields == <<"lot_stock_id", "wh_input_stock_loc_id", "wh_qc_stock_loc_id",
                  "wh_output_stock_loc_id", "wh_pack_stock_loc_id">>

\* the many2one fields of a warehouse that point to an operation type
TypeFields == <<"pick_type_id", "pack_type_id", "out_type_id",
                "in_type_id", "int_type_id", "return_type_id">>

Range(s) == {s[i] : i \in DOMAIN s}

\* ------------------------------------------------------------ _default_name
search_count_company(c) ==
    Cardinality({w \in DOMAIN warehouses : warehouses[w].company_id = c})

FormatName(text, n) == <<text, n>>

_default_name ==
    LET count == search_count_company(company)
    IN  IF count # 0 THEN FormatName(CompanyName[company], count + 1)
        ELSE <<CompanyName[company], 0>>

\* ------------------------------------------------------------- the call
Idle ==
    [status |-> "idle", pc |-> 0, vals |-> <<>>, args |-> <<>>, wh |-> Falsy,
     trace |-> <<>>, new_locs |-> {}, new_types |-> {}, snap |-> <<>>,
     error |-> "", calls |-> 0]

Snapshot ==
    [warehouses |-> warehouses, locations |-> locations,
     picking_types |-> picking_types, routes |-> routes, rules |-> rules,
     partner_data |-> partner_data, implied_ids |-> implied_ids]

\* the values a caller passes to create
Vals(code, company_id, name, steps, partner_id, resupply, view, extra) ==
    [code |-> code, company_id |-> company_id, name |-> name,
     delivery_steps |-> steps, partner_id |-> partner_id,
     resupply_wh_ids |-> resupply, view_location_id |-> view,
     lot_stock_id |-> Falsy, wh_input_stock_loc_id |-> Falsy,
     wh_qc_stock_loc_id |-> extra, wh_output_stock_loc_id |-> Falsy,
     wh_pack_stock_loc_id |-> Falsy]

Init ==
    /\ warehouses = <<>>
    /\ locations = (stock_location_locations :>
                      [name |-> "Locations", usage |-> "view",
                       location_id |-> Falsy, company_id |-> Falsy])
    /\ picking_types = <<>>
    /\ routes = <<>>
    /\ rules = <<>>
    /\ partner_data = {}
    /\ implied_ids = {}
    /\ company \in Companies
    /\ tx = Idle
    /\ onchange = "unset"

\* the same database with any setting of the two feature groups
InitGroups ==
    /\ warehouses = <<>>
    /\ locations = (stock_location_locations :>
                      [name |-> "Locations", usage |-> "view",
                       location_id |-> Falsy, company_id |-> Falsy])
    /\ picking_types = <<>>
    /\ routes = <<>>
    /\ rules = <<>>
    /\ partner_data = {}
    /\ implied_ids \in SUBSET Groups
    /\ company \in Companies
    /\ tx = Idle
    /\ onchange = "unset"

Begin(v) ==
    /\ tx.status # "running"
    /\ tx.calls < MaxCalls
    /\ tx' = [Idle EXCEPT !.status = "running", !.pc = 1, !.vals = v, !.args = v,
                          !.snap = Snapshot, !.calls = tx.calls + 1]
    /\ onchange' = "unset"
    /\ UNCHANGED <<db_vars, company>>

\* the steps with the partner update moved before the resupply routes
StepOrderPartnerFirst ==
    <<"view", "sub", "persist", "types", "routes", "global",
      "partner", "resupply", "check">>

\* ---------------------------------------------- the steps of create, in order
StepOrder ==
    <<"view", "sub", "persist", "types", "routes", "global",
      "resupply", "partner", "check">>

At(step) ==
    /\ tx.status = "running"
    /\ StepOrder[tx.pc] = step

\* the call after one more step: the next statement, or the return
Advance(t, step) ==
    LET u == [t EXCEPT !.trace = Append(t.trace, step)]
    IN  IF t.pc = Len(StepOrder)
        THEN [u EXCEPT !.status = "done", !.pc = 0]
        ELSE [u EXCEPT !.pc = t.pc + 1]

\* stock.location create: a location without a company is company-agnostic
LocationCreate(values) ==
    [name |-> values.name, usage |-> values.usage,
     location_id |-> values.location_id,
     company_id |-> IF "company_id" \in DOMAIN values
                    THEN values.company_id ELSE Falsy]

\* lines 100-103: the values of the view location
ViewLocVals(vals) ==
    LET loc_vals == [name |-> vals.code, usage |-> "view",
                     location_id |-> stock_location_locations]
    IN  IF vals.company_id # Falsy
        THEN loc_vals @@ [company_id |-> vals.company_id]
        ELSE loc_vals

\* the new location as a default only: a view location in vals is kept
SetViewLocationDefault(vals, id) ==
    IF vals.view_location_id # Falsy THEN vals
    ELSE [vals EXCEPT !.view_location_id = id]

\* line 104: the new location replaces whatever vals held
SetViewLocation(vals, id) == [vals EXCEPT !.view_location_id = id]

\* lines 100-104
CreateViewLocation ==
    /\ At("view")
    /\ LET id == NewId(locations)
       IN  /\ locations' = (id :> LocationCreate(ViewLocVals(tx.vals))) @@ locations
           /\ tx' = [Advance(tx, "view") EXCEPT
                       !.vals = SetViewLocation(tx.vals, id),
                       !.new_locs = tx.new_locs \cup {id}]
    /\ UNCHANGED <<warehouses, picking_types, routes, rules, partner_data,
                   implied_ids, company, onchange>>

\* the delivery steps of the call: the value given or the field's default
StepsOf(vals) ==
    IF vals.delivery_steps = "" THEN "ship_only" ELSE vals.delivery_steps

\* _get_locations_values: the sub-location fields the step configuration needs
_get_locations_values(vals) ==
    LET steps == StepsOf(vals)
        needed == {"lot_stock_id"}
                  \cup (IF steps \in {"pick_ship", "pick_pack_ship"}
                        THEN {"wh_output_stock_loc_id"} ELSE {})
                  \cup (IF steps = "pick_pack_ship"
                        THEN {"wh_pack_stock_loc_id"} ELSE {})
    IN  [f \in needed |-> [name |-> f, usage |-> "internal"]]

\* lines 107-110: the values of one sub-location
SubLocVals(values, vals) ==
    LET v == values @@ [location_id |-> vals.view_location_id]
    IN  IF vals.company_id # Falsy
        THEN v @@ [company_id |-> vals.company_id]
        ELSE v

\* lines 105-111
CreateSubLocations ==
    /\ At("sub")
    /\ LET sub_locations == _get_locations_values(tx.vals)
           fields == SelectSeq(SubLocFields, LAMBDA f : f \in DOMAIN sub_locations)
           base == MaxOf(DOMAIN locations)
           idOf == [f \in Range(fields) |->
                      base + (CHOOSE i \in DOMAIN fields : fields[i] = f)]
           created == [i \in {idOf[f] : f \in Range(fields)} |->
                         LET f == CHOOSE g \in Range(fields) : idOf[g] = i
                         IN  LocationCreate(SubLocVals(sub_locations[f], tx.vals))]
       IN  /\ locations' = created @@ locations
           /\ tx' = [Advance(tx, "sub") EXCEPT
                       !.vals = [k \in DOMAIN tx.vals |->
                                   IF k \in Range(fields) THEN idOf[k] ELSE tx.vals[k]],
                       !.new_locs = tx.new_locs \cup DOMAIN created]
    /\ UNCHANGED <<warehouses, picking_types, routes, rules, partner_data,
                   implied_ids, company, onchange>>

\* the record super().create builds from vals and the fields' defaults
NewWarehouse(vals) ==
    [name |-> IF vals.name = NoName THEN _default_name ELSE vals.name,
     active |-> TRUE,
     company_id |-> IF vals.company_id = Falsy THEN company ELSE vals.company_id,
     partner_id |-> IF vals.partner_id = Falsy THEN CompanyPartner[company]
                    ELSE vals.partner_id,
     code |-> vals.code,
     delivery_steps |-> StepsOf(vals),
     view_location_id |-> vals.view_location_id,
     lot_stock_id |-> vals.lot_stock_id,
     wh_input_stock_loc_id |-> vals.wh_input_stock_loc_id,
     wh_qc_stock_loc_id |-> vals.wh_qc_stock_loc_id,
     wh_output_stock_loc_id |-> vals.wh_output_stock_loc_id,
     wh_pack_stock_loc_id |-> vals.wh_pack_stock_loc_id,
     pick_type_id |-> Falsy, pack_type_id |-> Falsy, out_type_id |-> Falsy,
     in_type_id |-> Falsy, int_type_id |-> Falsy, return_type_id |-> Falsy,
     mto_pull_id |-> Falsy, crossdock_route_id |-> Falsy,
     reception_route_id |-> Falsy, delivery_route_id |-> Falsy,
     resupply_wh_ids |-> vals.resupply_wh_ids]

\* unique(name, company_id)
warehouse_name_uniq(rec) ==
    \A w \in DOMAIN warehouses :
        ~(warehouses[w].name = rec.name /\ warehouses[w].company_id = rec.company_id)

\* unique(code): the constraint without the company
warehouse_code_uniq_global(rec) ==
    \A w \in DOMAIN warehouses : warehouses[w].code # rec.code

\* unique(code, company_id)
warehouse_code_uniq(rec) ==
    \A w \in DOMAIN warehouses :
        ~(warehouses[w].code = rec.code /\ warehouses[w].company_id = rec.company_id)

\* required=True on view_location_id and lot_stock_id
RequiredSet(rec) ==
    /\ rec.view_location_id # Falsy
    /\ rec.lot_stock_id # Falsy

\* the location fields without check_company
CheckCompanyOff(rec) == TRUE

\* _check_company_auto with check_company=True on the location fields: a
\* location a warehouse points to is of the warehouse's company or of none
CheckCompany(rec) ==
    \A f \in Range(SubLocFields) \cup {"view_location_id"} :
        rec[f] # Falsy => locations[rec[f]].company_id \in {Falsy, rec.company_id}

\* the checks of super().create that reject the record; which of several
\* violated checks is reported is up to the persistence layer
PersistErrors(rec) ==
    (IF RequiredSet(rec) THEN {} ELSE {"required"})
    \cup (IF CheckCompany(rec) THEN {} ELSE {"check_company"})
    \cup (IF warehouse_name_uniq(rec) THEN {} ELSE {"warehouse_name_uniq"})
    \cup (IF warehouse_code_uniq(rec) THEN {} ELSE {"warehouse_code_uniq"})

\* the transaction of a call that raised is rolled back by the platform
Rollback ==
    /\ warehouses' = tx.snap.warehouses
    /\ locations' = tx.snap.locations
    /\ picking_types' = tx.snap.picking_types
    /\ routes' = tx.snap.routes
    /\ rules' = tx.snap.rules
    /\ partner_data' = tx.snap.partner_data
    /\ implied_ids' = tx.snap.implied_ids

\* the exception caught inside create: the work done so far stays
RaiseCaught(error) ==
    /\ tx' = [tx EXCEPT !.status = "failed", !.pc = 0, !.error = error]
    /\ UNCHANGED <<db_vars, company, onchange>>

\* an exception leaves create: nothing in lines 98-132 catches it
Raise(error) ==
    /\ Rollback
    /\ tx' = [tx EXCEPT !.status = "failed", !.pc = 0, !.error = error]
    /\ UNCHANGED <<company, onchange>>

\* line 113
PersistWarehouse ==
    /\ At("persist")
    /\ LET rec == NewWarehouse(tx.vals)
           id == NewId(warehouses)
       IN  IF PersistErrors(rec) # {}
           THEN \E error \in PersistErrors(rec) : Raise(error)
           ELSE /\ warehouses' = (id :> rec) @@ warehouses
                /\ tx' = [Advance(tx, "persist") EXCEPT !.wh = id]
                /\ UNCHANGED <<locations, picking_types, routes, rules,
                               partner_data, implied_ids, company, onchange>>


\* the operation types the step configuration needs
TypesNeeded(steps) ==
    {"in_type_id", "int_type_id", "out_type_id", "return_type_id"}
    \cup (IF steps \in {"pick_ship", "pick_pack_ship"} THEN {"pick_type_id"} ELSE {})
    \cup (IF steps = "pick_pack_ship" THEN {"pack_type_id"} ELSE {})

\* _create_or_update_sequences_and_picking_types: one new operation type per
\* needed field, of the warehouse's company; returns the values to write back
_create_or_update_sequences_and_picking_types(w) ==
    LET fields == SelectSeq(TypeFields,
                            LAMBDA f : f \in TypesNeeded(warehouses[w].delivery_steps))
        base == MaxOf(DOMAIN picking_types)
    IN  [f \in Range(fields) |-> base + (CHOOSE i \in DOMAIN fields : fields[i] = f)]

\* warehouse.write(values)
Write(w, values) ==
    [warehouses EXCEPT ![w] =
        [k \in DOMAIN warehouses[w] |->
            IF k \in DOMAIN values THEN values[k] ELSE warehouses[w][k]]]

\* lines 115-116
ProvisionTypes ==
    /\ At("types")
    /\ LET new_vals == _create_or_update_sequences_and_picking_types(tx.wh)
           created == [i \in {new_vals[f] : f \in DOMAIN new_vals} |->
                         [code |-> CHOOSE f \in DOMAIN new_vals : new_vals[f] = i,
                          warehouse_id |-> tx.wh,
                          company_id |-> warehouses[tx.wh].company_id]]
       IN  /\ picking_types' = created @@ picking_types
           /\ warehouses' = Write(tx.wh, new_vals)
           /\ tx' = [Advance(tx, "types") EXCEPT !.new_types = DOMAIN created]
    /\ UNCHANGED <<locations, routes, rules, partner_data, implied_ids,
                   company, onchange>>

RouteFields == <<"reception_route_id", "delivery_route_id", "crossdock_route_id">>

\* _create_or_update_route: the receipt, delivery and cross-dock routes of the
\* warehouse; returns the values to write back
_create_or_update_route(w) ==
    LET base == MaxOf(DOMAIN routes)
    IN  [f \in Range(RouteFields) |->
            base + (CHOOSE i \in DOMAIN RouteFields : RouteFields[i] = f)]

\* lines 119-120
ProvisionRoutes ==
    /\ At("routes")
    /\ LET route_vals == _create_or_update_route(tx.wh)
           created == [i \in {route_vals[f] : f \in DOMAIN route_vals} |->
                         [kind |-> CHOOSE f \in DOMAIN route_vals : route_vals[f] = i,
                          supplied_wh_id |-> Falsy, supplier_wh_id |-> Falsy]]
       IN  /\ routes' = created @@ routes
           /\ warehouses' = Write(tx.wh, route_vals)
    /\ tx' = Advance(tx, "routes")
    /\ UNCHANGED <<locations, picking_types, rules, partner_data, implied_ids,
                   company, onchange>>

\* line 122: _create_or_update_global_routes_rules, the make-to-order rule
GlobalRules ==
    /\ At("global")
    /\ LET id == NewId(rules)
       IN  /\ rules' = (id :> [warehouse_id |-> tx.wh]) @@ rules
           /\ warehouses' = Write(tx.wh, [mto_pull_id |-> id])
    /\ tx' = Advance(tx, "global")
    /\ UNCHANGED <<locations, picking_types, routes, partner_data, implied_ids,
                   company, onchange>>

\* self.resupply_wh_ids: self is the empty recordset of the model
ResupplyArgSelf(w) == {}

\* the argument of create_resupply_routes at line 124
ResupplyArg(w) == warehouses[w].resupply_wh_ids

\* create_resupply_routes: one route from each supplier into the warehouse
create_resupply_routes(w, suppliers) ==
    LET base == MaxOf(DOMAIN routes)
        rank(s) == Cardinality({t \in suppliers : t <= s})
    IN  [i \in {base + rank(s) : s \in suppliers} |->
            [kind |-> "resupply", supplied_wh_id |-> w,
             supplier_wh_id |-> CHOOSE s \in suppliers : base + rank(s) = i]]

\* line 124
ResupplyRoutes ==
    /\ At("resupply")
    /\ routes' = create_resupply_routes(tx.wh, ResupplyArg(tx.wh)) @@ routes
    /\ tx' = Advance(tx, "resupply")
    /\ UNCHANGED <<warehouses, locations, picking_types, rules, partner_data,
                   implied_ids, company, onchange>>

\* resupply_route_ids: the one2many over stock.location.route.supplied_wh_id
resupply_route_ids(w) ==
    {r \in DOMAIN routes : routes[r].supplied_wh_id = w}

\* the update made for the current company instead of the one in vals
PartnerArgsEnv(vals) == <<vals.partner_id, company>>

\* line 128: the arguments of _update_partner_data
PartnerArgs(vals) == <<vals.partner_id, vals.company_id>>

\* _update_partner_data(partner_id, company_id)
_update_partner_data(partner_id, company_id) ==
    partner_data \cup {<<partner_id, company_id>>}

\* lines 127-128
PartnerData ==
    /\ At("partner")
    /\ IF tx.vals.partner_id # Falsy
       THEN /\ partner_data' = _update_partner_data(PartnerArgs(tx.vals)[1],
                                                    PartnerArgs(tx.vals)[2])
            /\ tx' = Advance(tx, "partner")
       ELSE /\ partner_data' = partner_data
            /\ tx' = [Advance(tx, "skip") EXCEPT !.trace = tx.trace]
    /\ UNCHANGED <<warehouses, locations, picking_types, routes, rules,
                   implied_ids, company, onchange>>

\* _check_multiwarehouse_group: with more than one active warehouse the
\* multi-warehouse capability is switched on
_check_multiwarehouse_group ==
    IF Cardinality({w \in DOMAIN warehouses : warehouses[w].active}) > 1
    THEN implied_ids \cup {group_stock_multi_warehouses}
    ELSE implied_ids

\* line 130, and the return at line 132
CheckMultiWarehouse ==
    /\ At("check")
    /\ implied_ids' = _check_multiwarehouse_group
    /\ tx' = Advance(tx, "check")
    /\ UNCHANGED <<warehouses, locations, picking_types, routes, rules,
                   partner_data, company, onchange>>

\* a collaborator called by create raises
Fail ==
    /\ tx.status = "running"
    /\ Raise("collaborator")

\* ------------------------------------------------ the platform's operations
\* unlink: the record goes, with its rows of the resupply relation; the
\* routes that pointed to it are left without a warehouse
Unlink(w) ==
    /\ tx.status # "running"
    /\ w \in DOMAIN warehouses
    /\ warehouses' = [x \in DOMAIN warehouses \ {w} |->
                        [warehouses[x] EXCEPT !.resupply_wh_ids = @ \ {w}]]
    /\ routes' = [r \in DOMAIN routes |->
                    [routes[r] EXCEPT
                       !.supplied_wh_id = IF @ = w THEN Falsy ELSE @,
                       !.supplier_wh_id = IF @ = w THEN Falsy ELSE @]]
    /\ tx' = [Idle EXCEPT !.calls = tx.calls]
    /\ UNCHANGED <<locations, picking_types, rules, partner_data, implied_ids,
                   company, onchange>>

\* write on the active field: archive or restore
ToggleActive(w) ==
    /\ tx.status # "running"
    /\ w \in DOMAIN warehouses
    /\ warehouses' = [warehouses EXCEPT ![w].active = ~@]
    /\ tx' = [Idle EXCEPT !.calls = tx.calls]
    /\ UNCHANGED <<locations, picking_types, routes, rules, partner_data,
                   implied_ids, company, onchange>>

\* the two tests of line 90 joined by `or`
_onchange_company_id_either ==
    IF \/ group_stock_multi_warehouses \notin implied_ids
       \/ group_stock_multi_locations \notin implied_ids
    THEN "warning"
    ELSE "none"

\* lines 85-96: the result of the onchange of company_id
_onchange_company_id ==
    IF /\ group_stock_multi_warehouses \notin implied_ids
       /\ group_stock_multi_locations \notin implied_ids
    THEN "warning"
    ELSE "none"

OnchangeCompany ==
    /\ tx.status # "running"
    /\ onchange' = _onchange_company_id
    /\ UNCHANGED <<db_vars, company, tx>>

\* ------------------------------------------------------------- the inputs
\* a name a caller types
TypedNames == {<<"Main", 0>>}

\* identity: code, company and name vary
ValsIdentity ==
    {Vals(c, co, n, "", Falsy, {}, Falsy, Falsy) :
        c \in Codes, co \in {Falsy} \cup Companies, n \in {NoName} \cup TypedNames}

\* the stock locations of the warehouses that exist
StockLocations == {warehouses[w].lot_stock_id : w \in DOMAIN warehouses}

\* configuration: the delivery steps vary, and the caller may pass a view
\* location and a quality-control location of its own
ValsConfig ==
    {Vals(c, co, NoName, st, Falsy, {}, v, x) :
        c \in Codes, co \in {Falsy, 1}, st \in delivery_steps,
        v \in {Falsy, stock_location_locations},
        x \in {Falsy} \cup StockLocations}

\* links: the partner and the resupplying warehouses vary
ValsLinks ==
    {Vals(c, co, NoName, "", p, r, Falsy, Falsy) :
        c \in Codes, co \in {Falsy, 2}, p \in {Falsy, Address},
        r \in SUBSET DOMAIN warehouses}

ValsPlain == {Vals(c, Falsy, NoName, "", Falsy, {}, Falsy, Falsy) : c \in Codes}

Steps ==
    \/ CreateViewLocation
    \/ CreateSubLocations
    \/ PersistWarehouse
    \/ ProvisionTypes
    \/ ProvisionRoutes
    \/ GlobalRules
    \/ ResupplyRoutes
    \/ PartnerData
    \/ CheckMultiWarehouse
    \/ Fail

Next ==
    \/ \E v \in ValsIdentity : Begin(v)
    \/ Steps
    \/ \E w \in DOMAIN warehouses : Unlink(w)
    \/ \E w \in DOMAIN warehouses : ToggleActive(w)

Spec == Init /\ [][Next]_vars

NextConfig ==
    \/ \E v \in ValsConfig : Begin(v)
    \/ Steps

SpecConfig == Init /\ [][NextConfig]_vars

NextLinks ==
    \/ \E v \in ValsLinks : Begin(v)
    \/ Steps

SpecLinks == Init /\ [][NextLinks]_vars

NextOnchange ==
    \/ \E v \in ValsPlain : Begin(v)
    \/ Steps
    \/ \E w \in DOMAIN warehouses : ToggleActive(w)
    \/ OnchangeCompany

SpecOnchange == InitGroups /\ [][NextOnchange]_vars

\* ------------------------------------------------------------- properties
Done == tx.status = "done"

Failed == tx.status = "failed"

\* the company the record of a call gets: the one given, else the default
EffectiveCompany(args) ==
    IF args.company_id = Falsy THEN company ELSE args.company_id

\* the locations a warehouse record points to
LocationsOf(rec) ==
    {rec[f] : f \in Range(SubLocFields) \cup {"view_location_id"}} \ {Falsy}

\* C1: no two warehouses of one company share a short code; a create is
\* rejected by the code constraint only when a warehouse with the same code
\* and the same company exists, and a rejected create adds no warehouse.
C1_CodeUniquePerCompany ==
    /\ \A w1, w2 \in DOMAIN warehouses :
          (w1 # w2 /\ warehouses[w1].company_id = warehouses[w2].company_id)
             => warehouses[w1].code # warehouses[w2].code
    /\ (Failed /\ tx.error = "warehouse_code_uniq")
          => /\ \E w \in DOMAIN warehouses :
                   /\ warehouses[w].code = tx.args.code
                   /\ warehouses[w].company_id = EffectiveCompany(tx.args)
             /\ warehouses = tx.snap.warehouses

C1_Witness ==
    /\ Failed
    /\ tx.error = "warehouse_code_uniq"
    /\ \E w \in DOMAIN warehouses : ~warehouses[w].active

\* C2: after a create with three-step delivery the warehouse points to
\* exactly the sub-locations and operation types three-step delivery needs,
\* each created in this call, and the call created no other.
C2_ExactlyThreeStep ==
    (Done /\ tx.args.delivery_steps = "pick_pack_ship") =>
        LET rec == warehouses[tx.wh]
            needed == DOMAIN _get_locations_values(tx.args)
        IN  /\ {f \in Range(SubLocFields) : rec[f] # Falsy} = needed
            /\ \A f \in needed : rec[f] \in tx.new_locs
            /\ tx.new_locs = {rec[f] : f \in needed} \cup {rec.view_location_id}
            /\ {f \in Range(TypeFields) : rec[f] # Falsy} = TypesNeeded("pick_pack_ship")
            /\ tx.new_types = {rec[f] : f \in TypesNeeded("pick_pack_ship")}

\* C3: the view location of a warehouse is a location of usage view, made
\* by the create call itself as a child of the root locations node, whatever
\* view location the caller passed; no two warehouses share a view location.
C3_ViewLocationCreated ==
    /\ \A w \in DOMAIN warehouses :
          LET v == warehouses[w].view_location_id
          IN  /\ v \in DOMAIN locations
              /\ locations[v].usage = "view"
              /\ locations[v].location_id = stock_location_locations
    /\ \A w1, w2 \in DOMAIN warehouses :
          w1 # w2 => warehouses[w1].view_location_id # warehouses[w2].view_location_id
    /\ Done => /\ warehouses[tx.wh].view_location_id \in tx.new_locs
               /\ warehouses[tx.wh].view_location_id \notin DOMAIN tx.snap.locations
               /\ warehouses[tx.wh].view_location_id # tx.args.view_location_id

C3_Witness ==
    /\ Done
    /\ tx.args.view_location_id # Falsy
    /\ Cardinality(DOMAIN warehouses) = 2

C5_PartnerUpdated ==
    Done =>
        IF tx.args.partner_id # Falsy
        THEN partner_data = tx.snap.partner_data
                              \cup {<<tx.args.partner_id, tx.args.company_id>>}
        ELSE partner_data = tx.snap.partner_data

C5_Witness ==
    /\ Done
    /\ tx.args.partner_id # Falsy
    /\ tx.args.company_id # Falsy
    /\ tx.args.company_id # company

\* the order of the steps of a call
CreationOrder(args) ==
    IF args.partner_id # Falsy
    THEN <<"view", "sub", "persist", "types", "routes", "global",
           "resupply", "partner", "check">>
    ELSE <<"view", "sub", "persist", "types", "routes", "global",
           "resupply", "check">>

\* C6: the steps of a call happen in the order view location, sub-locations,
\* warehouse record, operation types, routes, global rules, resupply routes,
\* partner data, multi-warehouse check; a warehouse record exists only once
\* its view location and sub-locations do.
C6_StepsInOrder ==
    /\ tx.status # "idle" =>
          /\ Len(tx.trace) <= Len(CreationOrder(tx.args))
          /\ tx.trace = SubSeq(CreationOrder(tx.args), 1, Len(tx.trace))
    /\ Done => tx.trace = CreationOrder(tx.args)
    /\ (tx.status = "running" /\ tx.wh # Falsy) =>
          /\ tx.wh \in DOMAIN warehouses
          /\ Len(tx.trace) >= 3
    /\ \A w \in DOMAIN warehouses :
          /\ warehouses[w].lot_stock_id # Falsy
          /\ LocationsOf(warehouses[w]) \subseteq DOMAIN locations

C6_Witness ==
    /\ Done
    /\ tx.args.partner_id # Falsy
    /\ tx.args.resupply_wh_ids # {}

\* C7: the view location and the sub-locations of a warehouse are of the
\* warehouse's company or of none; with a company in the values the new
\* locations carry it, without one the warehouse gets the default company.
C7_LocationsOfSameCompany ==
    /\ \A w \in DOMAIN warehouses :
          \A l \in LocationsOf(warehouses[w]) :
              locations[l].company_id \in {Falsy, warehouses[w].company_id}
    /\ Done =>
          IF tx.args.company_id # Falsy
          THEN /\ warehouses[tx.wh].company_id = tx.args.company_id
               /\ \A l \in tx.new_locs : locations[l].company_id = tx.args.company_id
          ELSE warehouses[tx.wh].company_id = company

C7_Witness ==
    /\ Done
    /\ tx.args.company_id # Falsy
    /\ tx.args.company_id # company
    /\ tx.args.wh_qc_stock_loc_id # Falsy

\* C8 as stated: the hook warns exactly when the multi-locations group is
\* not implied by the user group.
C8_WarnsWithoutMultiLocations ==
    onchange # "unset" =>
        (onchange = "warning" <=> group_stock_multi_locations \notin implied_ids)

\* C8: the hook warns exactly when neither the multi-warehouses group nor the
\* multi-locations group is implied by the user group, and changes no record.
C8_WarnsWithoutBothGroups ==
    /\ [](onchange # "unset" =>
            (onchange = "warning" <=>
                /\ group_stock_multi_warehouses \notin implied_ids
                /\ group_stock_multi_locations \notin implied_ids))
    /\ [][onchange' \notin {onchange, "unset"} => UNCHANGED db_vars]_vars

C8_Witness ==
    /\ onchange = "none"
    /\ implied_ids = {group_stock_multi_warehouses}

\* C9: a call that fails leaves the records as they were before the call:
\* neither the warehouse nor a location the call made remains, and the
\* error is reported.
C9_FailureAbortsCreation ==
    Failed =>
        /\ tx.error # ""
        /\ Snapshot = tx.snap
        /\ tx.new_locs \cap DOMAIN locations = {}
        /\ tx.wh # Falsy => tx.wh \notin DOMAIN warehouses

C9_Witness ==
    /\ Failed
    /\ tx.error = "collaborator"
    /\ tx.wh # Falsy

\* C10: between calls the default name differs from the name of every
\* warehouse of the current company.
C10_DefaultNameFree ==
    tx.status # "running" =>
        \A w \in DOMAIN warehouses :
            warehouses[w].company_id = company => warehouses[w].name # _default_name
====
